---- MODULE Spec2Model ----
(***************************************************************************)
(* Token lifecycle, credential acquisition and request pipeline of the     *)
(* Spotify proxy (src/api/main.py, src/api/spotify/{api,cache,utils}.py).  *)
(*                                                                         *)
(* Python values are modelled structurally:                                *)
(*   None                      the string "None"                           *)
(*   a token string            an element of Tokens, or "" (empty string)  *)
(*   a coroutine object        the string "coroutine"                      *)
(*   a JSON object             <<"dict", n>>, n = 0 for the empty object   *)
(*   the text json.dumps(d)    <<"str", n>> for the object <<"dict", n>>   *)
(*   None as a cache result    <<"None", 0>>                               *)
(* Wall-clock time (datetime.now, time.time, CURRENT_TIMESTAMP) is the     *)
(* variable now, advanced by Tick.                                         *)
(***************************************************************************)
EXTENDS Integers, Sequences, FiniteSets, TLC

\* ------------------------------------------------------------- bounds
MaxTime == 2
MaxExpiresIn == 2
MaxInserts == 4

None == "None"
Tokens == {"t1", "t2"}

VARIABLES
    now,          \* the wall clock
    store,        \* the TokenStore implementation the run drives
    op,           \* name of the operation that made the last step
    token_cache,  \* main.token_cache: the process-wide TokenCache instance
    pool,         \* rows of the spotify_token table
    nextId,       \* next row id of spotify_token
    tokRet,       \* what the last token-store get returned
    req,          \* what the last inbound handler (get_spotify, get_token) did
    acq,          \* the running call of SpotifyUtils.analyze_web_player_request
    resp,         \* an upstream answer to requests.get
    verdict,      \* what SpotifyAPI._get makes of resp
    fileStore,    \* the files .cache/<key>.json of the file Cache
    dbStore,      \* the rows of the cache table
    call,         \* what the last SpotifyAPI._get did
    pag,          \* the running call of SpotifyAPI._get_all_items
    cop,          \* the last operations on the two request-cache backends
    route,        \* what the last inbound route sent upstream
    fp,           \* two parameter mappings and their cache keys
    up,           \* a requests.get of SpotifyAPI._get under way
    wr,           \* the set_token calls under way on the shared database
    nc            \* one NeonCache instance and the calls under way on it

tokenVars == <<token_cache, pool, nextId, tokRet, req>>
acqVars == <<acq>>
classVars == <<resp, verdict>>
\* The variables the token operations, the acquirer and the classification
\* leave alone.
cacheVars == <<fileStore, dbStore, call>>
\* Pagination, direct cache operations, inbound routes, cache keys.
laterVars == <<pag, cop, route, fp, up, wr, nc>>
notTokenVars == <<acqVars, classVars, cacheVars, laterVars>>
notAcqVars == <<tokenVars, classVars, cacheVars, laterVars>>
notClassVars == <<tokenVars, acqVars, cacheVars, laterVars>>
notCacheVars == <<tokenVars, acqVars, classVars, laterVars>>

\* ------------------------------------------------------------- clock
Tick ==
    /\ now < MaxTime
    /\ now' = now + 1
    /\ op' = "Tick"
    /\ UNCHANGED store

\* ------------------------------------------------------- main.TokenCache
\* The expires_at of a TokenCache that was never set (self.expires_at = None).
NoTime == -1

\* TokenCache.__init__
TokenCacheInit == [token |-> None, expires_at |-> NoTime]

\* Python truthiness of a string-or-None value (None and "" are falsy).
Truthy(v) == v # None /\ v # ""

\* TokenCache.set: both fields are overwritten, expiry is now + expires_in.
TokenCacheSet(tc, token, expires_in, t) ==
    [token |-> token, expires_at |-> t + expires_in]

\* TokenCache.get that never finds a token.
TokenCacheGetMutantMiss(tc, t) == None

\* TokenCache.get: None when unset, None when datetime.now() >= expires_at.
TokenCacheGet(tc, t) ==
    IF ~Truthy(tc.token) \/ tc.expires_at = NoTime THEN None
    ELSE IF t >= tc.expires_at THEN None
    ELSE tc.token

NoTokRet == [store |-> None, token |-> None, expires_at |-> 0, at |-> 0]

\* A caller invokes token_cache.set(token, expires_in).
DoTokenCacheSet(token, expires_in) ==
    /\ store = "TokenCache"
    /\ token_cache' = TokenCacheSet(token_cache, token, expires_in, now)
    /\ op' = "TokenCache.set"
    /\ UNCHANGED <<now, store, pool, nextId, tokRet, req, notTokenVars>>

\* A caller invokes token_cache.get(); tokRet records the token handed out
\* together with the expiry the store recorded for it.
DoTokenCacheGet ==
    /\ store = "TokenCache"
    /\ LET r == TokenCacheGet(token_cache, now)
       IN  tokRet' = [store |-> "TokenCache", token |-> r,
                      expires_at |-> IF r = None THEN 0 ELSE token_cache.expires_at,
                      at |-> now]
    /\ op' = "TokenCache.get"
    /\ UNCHANGED <<now, store, token_cache, pool, nextId, req, notTokenVars>>


\* ------------------------------------------------ NeonCache token pool
\* LIMIT 3 of the two spotify_token queries.
PoolLimit == 3

Min(a, b) == IF a < b THEN a ELSE b

\* WHERE expires_at > CURRENT_TIMESTAMP
LiveRowsMutantInclusive(rows, t) == {r \in rows : r.expires_at >= t}

LiveRows(rows, t) == {r \in rows : r.expires_at > t}

\* The result sets "WHERE expires_at > CURRENT_TIMESTAMP ORDER BY created_at
\* DESC LIMIT 3" can produce: rows of equal created_at are ordered arbitrarily.
NewestLive(rows, t) ==
    LET live == LiveRows(rows, t)
    IN  {K \in SUBSET live :
            /\ Cardinality(K) = Min(PoolLimit, Cardinality(live))
            /\ \A k \in K : \A r \in live \ K : k.created_at >= r.created_at}

\* NeonCache.set_token: INSERT the new row, then DELETE every row outside the
\* newest three live ones.  The two statements run one after the other on one
\* connection; an exception in either is printed and swallowed, so fail names
\* the statement (if any) at which the database raised.
NeonCache_set_token(token, expires_in, fail) ==
    /\ store = "NeonCache"
    /\ nextId <= MaxInserts
    /\ LET row == [id |-> nextId, access_token |-> token,
                   expires_at |-> now + expires_in, created_at |-> now]
           inserted == pool \cup {row}
       IN  \/ /\ fail = "insert"
              /\ UNCHANGED <<pool, nextId>>
           \/ /\ fail = "delete"
              /\ pool' = inserted
              /\ nextId' = nextId + 1
           \/ /\ fail = "none"
              /\ \E K \in NewestLive(inserted, now) : pool' = K
              /\ nextId' = nextId + 1
    /\ op' = "NeonCache.set_token"
    /\ UNCHANGED <<now, store, token_cache, tokRet, req, notTokenVars>>

\* NeonCache.get_token: the newest three live rows, one of them drawn by
\* random.choices with weights 3:2:1 (every row has positive weight); None
\* when there is no live row or the database raised.
NeonCache_get_token(fail) ==
    /\ store = "NeonCache"
    /\ \/ /\ fail
          /\ tokRet' = [store |-> "NeonCache", token |-> None, expires_at |-> 0, at |-> now]
       \/ /\ ~fail
          /\ \E K \in NewestLive(pool, now) :
                IF K = {}
                THEN tokRet' = [store |-> "NeonCache", token |-> None,
                                expires_at |-> 0, at |-> now]
                ELSE \E row \in K :
                        tokRet' = [store |-> "NeonCache", token |-> row.access_token,
                                   expires_at |-> row.expires_at, at |-> now]
    /\ op' = "NeonCache.get_token"
    /\ UNCHANGED <<now, store, token_cache, pool, nextId, req, notTokenVars>>

\* ------------------------------------------------ inbound token resolution
\* expires_in used when the token record carries none (main.py, .get default).
DefaultExpiresIn == 3600

\* SpotifyAPI.__init__: an empty token raises TokenError, otherwise the
\* client carries the token as its bearer (Authorization header).
SpotifyAPI_init(access_token) ==
    IF ~Truthy(access_token)
    THEN [kind |-> "TokenError", bearer |-> None]
    ELSE [kind |-> "SpotifyAPI", bearer |-> access_token]

\* The value of the expression SpotifyUtils.analyze_web_player_request(url)
\* as main.py writes it: analyze_web_player_request is an `async def` and the
\* call is not awaited, so the value is a coroutine object whose body never
\* runs, whatever the acquisition source src would have produced.
AcquirerCallValue(src) ==
    [type |-> "coroutine", access_token |-> None, expires_in |-> DefaultExpiresIn]

\* `not token_info or "access_token" not in token_info`: a coroutine object
\* is truthy and does not support `in`, so the test raises TypeError.
TokenInfoTest(token_info) ==
    IF token_info.type = "coroutine" THEN "TypeError"
    ELSE IF token_info.access_token = None THEN "reject"
    ELSE "accept"

NoReq ==
    [handler |-> None, credentials |-> None, src |-> None, cached |-> None,
     reads |-> 0, writes |-> 0, acquirer_calls |-> 0, fetches |-> 0,
     kind |-> None, bearer |-> None, status |-> 0]

\* The part of get_spotify and of the /api/token handler after the token
\* store missed: call the acquirer, test its value, set the store.  errStatus
\* is the status of the HTTPException the handler's `except Exception` raises.
AcquireAndStore(handler, src, tc, t, errStatus) ==
    LET token_info == AcquirerCallValue(src)
        test == TokenInfoTest(token_info)
        base == [NoReq EXCEPT !.handler = handler, !.src = src,
                              !.reads = 1, !.acquirer_calls = 1]
    IN  IF test = "accept"
        THEN [tc |-> TokenCacheSet(tc, token_info.access_token, token_info.expires_in, t),
              req |-> [base EXCEPT !.writes = 1, !.kind = "ok",
                                   !.bearer = token_info.access_token]]
        ELSE [tc |-> tc,
              req |-> [base EXCEPT !.kind = "HTTPException", !.status = errStatus]]

\* get_spotify that looks into the token store before the credentials.
get_spotify_MutantStoreFirst(credentials, src, tc, t) ==
    LET cached_token == TokenCacheGet(tc, t)
    IN  IF Truthy(cached_token)
        THEN [tc |-> tc,
              req |-> [NoReq EXCEPT !.handler = "get_spotify", !.credentials = credentials,
                          !.src = src, !.cached = cached_token, !.reads = 1,
                          !.kind = "SpotifyAPI", !.bearer = cached_token]]
        ELSE IF credentials # None
        THEN [tc |-> tc,
              req |-> [NoReq EXCEPT !.handler = "get_spotify", !.credentials = credentials,
                          !.src = src, !.reads = 1,
                          !.kind = "SpotifyAPI", !.bearer = credentials]]
        ELSE [tc |-> tc,
              req |-> AcquireAndStore("get_spotify", src, tc, t, 401).req]

\* main.get_spotify: credentials of the request win; else the stored token;
\* else the acquirer.  Any exception becomes HTTPException(401).
get_spotify(credentials, src, tc, t) ==
    IF credentials # None
    THEN LET api == SpotifyAPI_init(credentials)
         IN  [tc |-> tc,
              req |-> [NoReq EXCEPT !.handler = "get_spotify", !.credentials = credentials,
                          !.src = src,
                          !.kind = IF api.kind = "SpotifyAPI" THEN "SpotifyAPI" ELSE "HTTPException",
                          !.bearer = api.bearer,
                          !.status = IF api.kind = "SpotifyAPI" THEN 0 ELSE 401]]
    ELSE LET cached_token == TokenCacheGet(tc, t)
         IN  IF Truthy(cached_token)
             THEN [tc |-> tc,
                   req |-> [NoReq EXCEPT !.handler = "get_spotify", !.src = src,
                               !.cached = cached_token, !.reads = 1,
                               !.kind = "SpotifyAPI", !.bearer = cached_token]]
             ELSE LET r == AcquireAndStore("get_spotify", src, tc, t, 401)
                  IN  [tc |-> r.tc,
                       req |-> IF r.req.kind = "ok"
                               THEN [r.req EXCEPT !.kind = "SpotifyAPI"]
                               ELSE r.req]

\* main.get_token (GET /api/token): the stored token, else the acquirer.
\* Any exception becomes HTTPException(500).
route_get_token(src, tc, t) ==
    LET cached_token == TokenCacheGet(tc, t)
    IN  IF Truthy(cached_token)
        THEN [tc |-> tc,
              req |-> [NoReq EXCEPT !.handler = "get_token", !.src = src,
                          !.cached = cached_token, !.reads = 1,
                          !.kind = "TokenResponse", !.bearer = cached_token]]
        ELSE LET r == AcquireAndStore("get_token", src, tc, t, 500)
             IN  [tc |-> r.tc,
                  req |-> IF r.req.kind = "ok"
                          THEN [r.req EXCEPT !.kind = "TokenResponse"]
                          ELSE r.req]

\* An inbound request reaches the get_spotify dependency.
DoGetSpotify(credentials, src) ==
    /\ store = "TokenCache"
    /\ LET r == get_spotify(credentials, src, token_cache, now)
       IN  /\ token_cache' = r.tc
           /\ req' = r.req
    /\ op' = "get_spotify"
    /\ UNCHANGED <<now, store, pool, nextId, tokRet, notTokenVars>>

\* An inbound GET /api/token.
DoRouteGetToken(src) ==
    /\ store = "TokenCache"
    /\ LET r == route_get_token(src, token_cache, now)
       IN  /\ token_cache' = r.tc
           /\ req' = r.req
    /\ op' = "get_token"
    /\ UNCHANGED <<now, store, pool, nextId, tokRet, notTokenVars>>

\* ------------------------------------- SpotifyUtils.analyze_web_player_request
MAX_RETRIES == 3
RETRY_DELAY == 1

\* "expires_in" of the record the acquirer returns.
AcquirerExpiresIn == 3600

\* Cap on the fetches of one modelled call.
MaxAttempts == 6

\* The two ends of random.uniform(0, 1).
Jitters == {0, 1}

RECURSIVE Pow2(_)
Pow2(n) == IF n = 0 THEN 1 ELSE 2 * Pow2(n - 1)

\* The expires_in a token response can declare; 0: it declares none.
DeclaredLifetimes == {0, 1800}

\* What one attempt can meet: the GET of the page (raises, non-200, 200), the
\* accessToken of the <script id="session"> payload (None: no script, bad JSON
\* or no such key; "null": the payload parses to null or a number, on which
\* `'accessToken' in session_data` raises TypeError), the first match of the
\* three text patterns (None: no match; a match is never empty), the answer
\* of the client-credentials POST (raises, non-200, 200 without access_token,
\* 200 with a value) and the expires_in that answer declares.
\* A page that was not fetched has no content, and only a token response
\* that carries an access_token is read for its lifetime.
Pages ==
    {p \in [fetch : {"raise", "non200", "ok"},
            session : {None, "", "null"} \cup Tokens,
            pattern : {None} \cup Tokens,
            post : {"raise", "non200", "nokey", ""} \cup Tokens,
            declared : DeclaredLifetimes] :
        /\ p.fetch # "ok" => p.session = None /\ p.pattern = None /\ p.post = "raise"
        /\ p.post \notin Tokens => p.declared = 0}

NoPage ==
    [fetch |-> "raise", session |-> None, pattern |-> None, post |-> "raise",
     declared |-> 0]

\* The body of the try block for one page: strategy 1, then 2, then 3, each
\* only `if not token`; `if token: return {"access_token": token,
\* "expires_in": 3600}`, else raise "No token found".  An exception inside a
\* strategy (other than JSONDecodeError in strategy 1) leaves the try block.
\* ok = the frame returns a record; posted = the POST was sent; strategy =
\* the strategy whose token is returned.
Attempt(page) ==
    LET failed(posted) ==
            [ok |-> FALSE, access_token |-> None, posted |-> posted, strategy |-> 0,
             expires_in |-> 0]
        won(token, posted, strategy) ==
            [ok |-> TRUE, access_token |-> token, posted |-> posted,
             strategy |-> strategy, expires_in |-> AcquirerExpiresIn]
    IN  IF page.fetch # "ok" THEN failed(FALSE)
        ELSE IF page.session = "null" THEN failed(FALSE)
        ELSE LET t1 == page.session
                 t2 == IF ~Truthy(t1) /\ page.pattern # None THEN page.pattern ELSE t1
             IN  IF Truthy(t2)
                 THEN won(t2, FALSE, IF Truthy(t1) THEN 1 ELSE 2)
                 ELSE IF page.post \in {"raise", "nokey"} THEN failed(TRUE)
                 ELSE LET t3 == IF page.post = "non200" THEN t2 ELSE page.post
                      IN  IF Truthy(t3) THEN won(t3, TRUE, 3) ELSE failed(TRUE)

\* `if retry_count < SpotifyUtils.MAX_RETRIES` of the except clause.
ShouldRetryMutantInclusive(retry_count) == retry_count <= MAX_RETRIES

ShouldRetry(retry_count) == retry_count < MAX_RETRIES

\* RETRY_DELAY * (2 ** retry_count), the part of the delay before the jitter.
BackoffMutantLinear(retry_count) == RETRY_DELAY * (retry_count + 1)

Backoff(retry_count) == RETRY_DELAY * Pow2(retry_count)

\* Whether an exception leaving the recursive call is caught by the calling
\* frame: the call `return await ...analyze_web_player_request(url,
\* retry_count + 1)` stands in the except clause, outside the try block.
RecursiveCallInTryMutant == TRUE

RecursiveCallInTry == FALSE

AcqIdle ==
    [pc |-> "idle", frames |-> 0, retry_count |-> 0, attempts |-> 0, posts |-> 0,
     sleeps |-> <<>>, exhausted |-> FALSE, kind |-> None, access_token |-> None,
     expires_in |-> 0, page |-> NoPage, posted |-> FALSE, strategy |-> 0]

\* A caller awaits analyze_web_player_request(url) (retry_count = 0).
AcqStart ==
    /\ acq.pc \in {"idle", "done"}
    /\ acq' = [AcqIdle EXCEPT !.pc = "try", !.frames = 1]
    /\ op' = "analyze_web_player_request"
    /\ UNCHANGED <<now, store, notAcqVars>>

\* The try block of the innermost frame runs on the page it meets.
AcqAttempt(page) ==
    /\ acq.pc = "try"
    /\ acq.attempts < MaxAttempts
    /\ LET r == Attempt(page)
       IN  acq' = [acq EXCEPT
                !.attempts = @ + 1,
                !.posts = @ + (IF r.posted THEN 1 ELSE 0),
                !.pc = IF r.ok THEN "return" ELSE "except",
                !.kind = IF r.ok THEN "token" ELSE None,
                !.access_token = r.access_token,
                !.expires_in = r.expires_in,
                !.page = page, !.posted = r.posted, !.strategy = r.strategy]
    /\ op' = "attempt"
    /\ UNCHANGED <<now, store, notAcqVars>>

\* The except clause of the innermost frame: sleep the backoff delay when a
\* retry is left, else raise the final exception.
AcqExcept(jitter) ==
    /\ acq.pc = "except"
    /\ IF ShouldRetry(acq.retry_count)
       THEN acq' = [acq EXCEPT
                !.pc = "sleep",
                !.sleeps = Append(@, [after |-> acq.attempts - 1,
                                      retry_count |-> acq.retry_count,
                                      delay |-> Backoff(acq.retry_count) + jitter])]
       ELSE acq' = [acq EXCEPT !.pc = "raise", !.exhausted = TRUE, !.kind = "error"]
    /\ op' = "except"
    /\ UNCHANGED <<now, store, notAcqVars>>

\* asyncio.sleep(delay) is over: the frame calls itself with retry_count + 1.
AcqWake ==
    /\ acq.pc = "sleep"
    /\ acq' = [acq EXCEPT !.pc = "try", !.frames = @ + 1, !.retry_count = @ + 1]
    /\ op' = "wake"
    /\ UNCHANGED <<now, store, notAcqVars>>

\* The innermost frame returns its record: each calling frame returns it in
\* turn (`return await ...`), the outermost one to the caller.
AcqReturn ==
    /\ acq.pc = "return"
    /\ acq' = [acq EXCEPT !.frames = @ - 1,
                          !.retry_count = IF @ > 0 THEN @ - 1 ELSE 0,
                          !.pc = IF acq.frames = 1 THEN "done" ELSE "return"]
    /\ op' = "return"
    /\ UNCHANGED <<now, store, notAcqVars>>

\* The innermost frame raises: the exception leaves it and arrives in the
\* calling frame at the recursive call, where it is caught only if that call
\* stands in a try block; out of the outermost frame it reaches the caller.
AcqRaise ==
    /\ acq.pc = "raise"
    /\ acq' = [acq EXCEPT !.frames = @ - 1,
                          !.retry_count = IF @ > 0 THEN @ - 1 ELSE 0,
                          !.pc = IF acq.frames = 1 THEN "done"
                                 ELSE IF RecursiveCallInTry THEN "except" ELSE "raise"]
    /\ op' = "raise"
    /\ UNCHANGED <<now, store, notAcqVars>>

\* ---------------------------------------- SpotifyAPI._get: classification
\* Error messages as word sequences, so that lower() and `in` are computed.
Messages ==
    {<<>>, <<"Bad", "request">>, <<"invalid", "id">>, <<"Invalid", "ID", "xyz">>,
     <<"id", "invalid">>}

\* str.lower(), word by word.
LowerWord(w) ==
    CASE w = "Invalid" -> "invalid"
      [] w = "ID" -> "id"
      [] w = "Bad" -> "bad"
      [] OTHER -> w

LowerMutantIdentity(msg) == msg

Lower(msg) == [i \in 1..Len(msg) |-> LowerWord(msg[i])]

\* "invalid id" in <text>
ContainsInvalidId(msg) ==
    \E i \in 1..Len(msg) - 1 : msg[i] = "invalid" /\ msg[i + 1] = "id"

\* HTTP status codes of the answers considered.
Statuses == {200, 400, 401, 404, 429, 500}

\* The status field of an error envelope; 0 stands for an envelope without one.
EnvelopeStatuses == {0, 400, 404, 429, 500}

\* Bodies: text that is not JSON; a JSON object without "error"; a JSON
\* object {"error": {"status": ..., "message": ...}}.
\* obj names the object: 0 is the empty object {}.
Objects == {0, 1}

Bodies ==
    {[kind |-> "text", estatus |-> 0, message |-> <<>>, obj |-> 0]}
    \cup [kind : {"object"}, estatus : {0}, message : {<<>>}, obj : Objects]
    \cup [kind : {"envelope"}, estatus : EnvelopeStatuses, message : Messages, obj : {2}]

\* requests.get raised (connection error, timeout): there is no response.
NoResponse ==
    [status |-> 0, body |-> [kind |-> "none", estatus |-> 0, message |-> <<>>, obj |-> 0]]

Responses == [status : Statuses, body : Bodies] \cup {NoResponse}

\* error.get('status', response.status_code)
ErrorStatus(r) == IF r.body.estatus = 0 THEN r.status ELSE r.body.estatus

\* The if/elif chain on error_status with the spec's order: the message
\* first.
ClassifyEnvelopeMutantMessageFirst(error_status, error_message) ==
    IF error_status = 404 \/ ContainsInvalidId(Lower(error_message))
    THEN "ResourceNotFoundError"
    ELSE IF error_status = 429 THEN "RateLimitError"
    ELSE IF error_status = 400 THEN "ValidationError"
    ELSE "pass"

\* The if/elif chain on error_status (parsed body).
ClassifyEnvelope(error_status, error_message) ==
    IF error_status = 404 THEN "ResourceNotFoundError"
    ELSE IF error_status = 429 THEN "RateLimitError"
    ELSE IF error_status = 400
    THEN IF ContainsInvalidId(Lower(error_message))
         THEN "ResourceNotFoundError"
         ELSE "ValidationError"
    ELSE "pass"

\* The if/elif chain on response.status_code (body not parseable), which is
\* also the chain of the HTTPError handler.
ClassifyRawStatus(status) ==
    IF status = 404 THEN "ResourceNotFoundError"
    ELSE IF status = 429 THEN "RateLimitError"
    ELSE IF status = 400 THEN "ValidationError"
    ELSE "pass"

\* What _get raises or returns for an upstream answer r once the cache has
\* missed ("ok": r's JSON is returned).  jsonErrorIsRequestException tells
\* whether the installed requests raises its own JSONDecodeError (a
\* RequestException) from response.json(), or the json module's ValueError.
Classify(r, jsonErrorIsRequestException) ==
    IF r = NoResponse THEN "SpotifyAPIError"
    ELSE IF r.status = 401 THEN "TokenError"
    ELSE LET first == IF r.body.kind = "text"
                      THEN ClassifyRawStatus(r.status)
                      ELSE ClassifyEnvelope(ErrorStatus(r), r.body.message)
         IN  IF first # "pass" THEN first
             ELSE IF r.status >= 400
             THEN \* raise_for_status() -> HTTPError -> the outer handler
                  (IF ClassifyRawStatus(r.status) # "pass"
                   THEN ClassifyRawStatus(r.status)
                   ELSE "SpotifyAPIError")
             ELSE IF r.body.kind = "text"
             THEN (IF jsonErrorIsRequestException THEN "SpotifyAPIError" ELSE "ValueError")
             ELSE "ok"

\* _get classifies the answer it got.
DoClassify(jsonErrorIsRequestException) ==
    /\ verdict = None
    /\ verdict' = Classify(resp, jsonErrorIsRequestException)
    /\ op' = "classify"
    /\ UNCHANGED <<now, store, resp, notClassVars>>

\* --------------------------------------------- request cache and pipeline
\* API_CONFIG["cache"]["ttl"], in ticks of the model's clock.
Ttl == 1

\* API_CONFIG["markets"]["default"]; get_spotify builds SpotifyAPI(token)
\* without a market.
DefaultMarket == "TW"

\* API_CONFIG["base_url"] + endpoint, for the endpoint requested.
Urls == {"https://api.spotify.com/v1/artists/123"}

\* A params argument is None, <<"None", <<>>>>, or a dict, <<"dict", items>>,
\* items being its (name, value) pairs in insertion order.
PNone == <<"None", <<>>>>

\* The params argument of the pipeline's _get calls: None, or an empty dict.
ParamChoices == {PNone, <<"dict", <<>>>>}

\* The parameter names in the order Python compares them (str order).
ParamNames == <<"limit", "market", "offset">>

Rank(name) == CHOOSE i \in 1..Len(ParamNames) : ParamNames[i] = name

\* The items left in insertion order.
SortedItemsMutantUnsorted(items) == items

\* sorted(params.items()): the pairs ordered by name (the names of a dict are
\* distinct, so the values never decide).
SortedItems(items) == SortSeq(items, LAMBDA a, b : Rank(a[1]) < Rank(b[1]))

\* _generate_cache_key: md5 over "market:url:items", where items is '' for
\* params that are None or empty and str(sorted(params.items())) otherwise.
\* The digest is taken as injective in the text: the key is the triple the
\* text is made from (<<>> for '').
generate_cache_key(market, url, params) ==
    LET p == IF params = PNone THEN <<"dict", <<>>>> ELSE params
    IN  <<market, url, IF p[2] # <<>> THEN SortedItems(p[2]) ELSE <<>>>>

Keys == {generate_cache_key(DefaultMarket, u, p) : u \in Urls, p \in ParamChoices}

\* No file / no row under a key.
NoEntry == [present |-> FALSE, stored_at |-> 0, value |-> <<"None", 0>>]

JNone == <<"None", 0>>

\* Truthiness of what a cache get returns: None and the empty dict are
\* falsy; a str is falsy only when empty, and json.dumps text never is.
TruthyJson(v) == v[1] = "str" \/ (v[1] = "dict" /\ v[2] # 0)

\* json.dumps(value): the text of the object.
Dumps(v) == <<"str", v[2]>>

\* The JSON object of a parsed body (response.json()).
JsonOf(r) == <<"dict", r.body.obj>>

\* Cache.get in which the expired entry is handed out once more while its
\* file is removed.
Cache_getMutantStaleOnce(files, key, t, readFails, unlinkFails) ==
    LET e == files[key]
    IN  IF ~e.present THEN [ret |-> JNone, files |-> files]
        ELSE IF readFails THEN [ret |-> JNone, files |-> files]
        ELSE IF t - e.stored_at > Ttl
        THEN [ret |-> e.value, files |-> [files EXCEPT ![key] = NoEntry]]
        ELSE [ret |-> e.value, files |-> files]

\* Cache.get: no file -> None; read and parse the file (an exception gives
\* None); older than ttl -> unlink the file and None (an exception in unlink
\* gives None and leaves the file); else the stored value.
Cache_get(files, key, t, readFails, unlinkFails) ==
    LET e == files[key]
    IN  IF ~e.present THEN [ret |-> JNone, files |-> files]
        ELSE IF readFails THEN [ret |-> JNone, files |-> files]
        ELSE IF t - e.stored_at > Ttl
        THEN [ret |-> JNone,
              files |-> IF unlinkFails THEN files ELSE [files EXCEPT ![key] = NoEntry]]
        ELSE [ret |-> e.value, files |-> files]

\* Cache.set: write {"timestamp": time.time(), "value": value}; write_text is
\* not guarded, so an OSError leaves the method (the file stays as it was).
Cache_set(files, key, value, t, writeFails) ==
    IF writeFails
    THEN [raised |-> "OSError", files |-> files]
    ELSE [raised |-> None,
          files |-> [files EXCEPT ![key] = [present |-> TRUE, stored_at |-> t, value |-> value]]]

\* NeonCache.get on the database: the row's value when created_at + ttl >
\* CURRENT_TIMESTAMP; an exception gives None.  The value comes back as the
\* driver hands a JSONB column out: the text that was written.
NeonCache_get_db(rows, key, t, fetchFails) ==
    LET e == rows[key]
    IN  IF fetchFails \/ ~e.present THEN JNone
        ELSE IF e.stored_at + Ttl > t THEN e.value
        ELSE JNone

\* NeonCache.set on the database: upsert (key, json.dumps(value), ttl) with
\* created_at = CURRENT_TIMESTAMP; an exception is printed and swallowed.
NeonCache_set_db(rows, key, value, t, executeFails) ==
    IF executeFails THEN rows
    ELSE [rows EXCEPT ![key] = [present |-> TRUE, stored_at |-> t, value |-> Dumps(value)]]

\* How NeonCache.init ends for the NeonCache of one SpotifyAPI: "db" (pool and
\* tables are there), "file" (an exception: _use_file_cache, Cache(".cache")),
\* "mkdir_error" (an exception, and Cache.__init__'s mkdir raises in the
\* except clause).
InitOutcomes == {"db", "file", "mkdir_error"}

\* The cache operations that can raise inside one _get.
Faults == SUBSET {"get", "unlink", "set"}

\* Answers of the upstream used by the pipeline runs.
PipelineResponses ==
    {r \in Responses :
        \/ r = NoResponse
        \/ r.status = 200 /\ r.body.kind = "object"
        \/ r.status \in {401, 500} /\ r.body.kind = "text"
        \/ r.status = 200 /\ r.body.kind = "envelope" /\ r.body.estatus = 404
              /\ r.body.message = <<>>}

\* How SpotifyAPI.__init__ leaves self.cache: a NeonCache (whose init ends
\* in one of InitOutcomes), "vercel" (VERCEL is set: self.cache = None), or
\* "disabled" (cache.enabled is false: the attribute is never assigned).
CacheSetups == InitOutcomes \cup {"vercel", "disabled"}

\* owner: the bearer of the call that wrote the entry held under each key.
NoCall ==
    [key |-> <<>>, mode |-> None, get_failed |-> FALSE, set_failed |-> FALSE,
     had_entry |-> FALSE,
     entry |-> JNone, hit |-> FALSE, upstream_calls |-> 0, resp |-> NoResponse,
     outcome |-> None, ret |-> JNone, bearer |-> None,
     owner |-> [k \in Keys |-> None]]

\* Whether the backend holds an entry for key that its own rule counts as
\* unexpired at time t, and the value it holds there.
HeldEntry(mode, key, t) ==
    IF mode = "db"
    THEN [valid |-> dbStore[key].present /\ dbStore[key].stored_at + Ttl > t,
          value |-> dbStore[key].value]
    ELSE [valid |-> fileStore[key].present /\ t - fileStore[key].stored_at <= Ttl,
          value |-> fileStore[key].value]

\* cache.set reached whatever the classification gave.
ReachesCacheSetMutantAlways(v) == TRUE

\* cache.set (line 276) stands behind the classification and
\* raise_for_status(): it is reached only when none of them raised.
ReachesCacheSet(v) == v = "ok"

\* SpotifyAPI._get of the client the request was given (req.bearer is the
\* token of its Authorization header): `if hasattr(self, 'cache')` cache.get,
\* on a truthy value return it; else requests.get, classify, on success
\* cache.set (again behind hasattr) and return the data.  With self.cache =
\* None the attribute exists and `self.cache.get` raises AttributeError
\* before the try block.  The cache key is made of market, url and params.
DoGet(url, params, r, init, faults) ==
    LET key == generate_cache_key(DefaultMarket, url, params)
        held == HeldEntry(init, key, now)
        base == [NoCall EXCEPT !.key = key, !.mode = init, !.get_failed = "get" \in faults,
                               !.had_entry = init \in {"db", "file"} /\ held.valid,
                               !.entry = IF init \in {"db", "file"} /\ held.valid
                                         THEN held.value ELSE JNone,
                               !.resp = r, !.bearer = req.bearer,
                               !.owner = call.owner]
        got == IF init = "db"
               THEN [ret |-> NeonCache_get_db(dbStore, key, now, "get" \in faults),
                     files |-> fileStore]
               ELSE Cache_get(fileStore, key, now, "get" \in faults, "unlink" \in faults)
        v == Classify(r, TRUE)
        written == [call.owner EXCEPT ![key] = req.bearer]
    IN  /\ store = "TokenCache"
        /\ op' = "_get"
        /\ UNCHANGED <<now, store, notCacheVars>>
        /\ IF init = "mkdir_error"
           THEN /\ call' = [base EXCEPT !.outcome = "OSError"]
                /\ UNCHANGED <<fileStore, dbStore>>
           ELSE IF init = "vercel"
           THEN /\ call' = [base EXCEPT !.outcome = "AttributeError"]
                /\ UNCHANGED <<fileStore, dbStore>>
           ELSE IF init = "disabled"
           THEN /\ call' = [base EXCEPT !.upstream_calls = 1, !.outcome = v,
                                        !.ret = IF v = "ok" THEN JsonOf(r) ELSE JNone]
                /\ UNCHANGED <<fileStore, dbStore>>
           ELSE IF TruthyJson(got.ret)
           THEN /\ call' = [base EXCEPT !.hit = TRUE, !.outcome = "ok", !.ret = got.ret]
                /\ fileStore' = got.files
                /\ UNCHANGED dbStore
           ELSE IF ~ReachesCacheSet(v)
           THEN /\ call' = [base EXCEPT !.upstream_calls = 1, !.outcome = v]
                /\ fileStore' = got.files
                /\ UNCHANGED dbStore
           ELSE IF init = "db"
           THEN /\ call' = [base EXCEPT !.upstream_calls = 1, !.outcome = v,
                                        !.set_failed = "set" \in faults,
                                        !.ret = IF v = "ok" THEN JsonOf(r) ELSE JNone,
                                        !.owner = IF "set" \in faults
                                                  THEN call.owner ELSE written]
                /\ dbStore' = NeonCache_set_db(dbStore, key, JsonOf(r), now, "set" \in faults)
                /\ fileStore' = got.files
           ELSE LET w == Cache_set(got.files, key, JsonOf(r), now, "set" \in faults)
                IN  /\ call' = [base EXCEPT !.upstream_calls = 1,
                                   !.set_failed = "set" \in faults,
                                   !.outcome = IF w.raised = None THEN v ELSE w.raised,
                                   !.ret = IF w.raised = None /\ v = "ok"
                                           THEN JsonOf(r) ELSE JNone,
                                   !.owner = IF w.raised = None THEN written ELSE call.owner]
                    /\ fileStore' = w.files
                    /\ UNCHANGED dbStore

\* ------------------------------------------- SpotifyAPI._get_all_items
MaxTotal == 4
MaxLimit == 3
MaxRequests == 6

\* How the upstream answers a page request: "next" serves the collection in
\* batches and sets next on every page but the last, "nonext" serves the same
\* batches and never sets next, "sticky" ignores the offset and always serves
\* the first batch with a truthy next, "nokey" answers without the key.
Upstreams == {"next", "nonext", "sticky", "nokey"}

\* The items with 1-based positions from+1 .. to of a collection 1..total.
Slice(from, to) == [i \in 1..(IF to > from THEN to - from ELSE 0) |-> from + i]

\* The JSON object the upstream sends for (offset, limit).
Page(upstream, total, limit, offset) ==
    LET end == Min(offset + limit, total)
    IN  CASE upstream = "next" ->
               [haskey |-> TRUE, batch |-> Slice(offset, end), next |-> offset + limit < total]
          [] upstream = "nonext" ->
               [haskey |-> TRUE, batch |-> Slice(offset, end), next |-> FALSE]
          [] upstream = "sticky" ->
               [haskey |-> TRUE, batch |-> Slice(0, Min(limit, total)), next |-> TRUE]
          [] OTHER ->
               [haskey |-> FALSE, batch |-> <<>>, next |-> FALSE]

\* The value of the expression self._get(endpoint, params) in the synchronous
\* _get_all_items: _get is an async def and the call is not awaited, so the
\* value is the coroutine object, not the page the coroutine would produce.
GetCallValue(page) == [kind |-> "coroutine", page |-> page]

PagIdle ==
    [pc |-> "idle", upstream |-> "nokey", total |-> 0, limit |-> 1, offset |-> 0,
     items |-> <<>>, requests |-> <<>>, outcome |-> None]

\* _get_all_items(endpoint, params) with params["limit"] = limit, up to the
\* loop: items = [], offset = 0.
PagStart(upstream, total, limit) ==
    /\ pag.pc \in {"idle", "done"}
    /\ pag' = [PagIdle EXCEPT !.pc = "loop", !.upstream = upstream, !.total = total,
                              !.limit = limit]
    /\ op' = "_get_all_items"
    /\ UNCHANGED <<now, store, tokenVars, acqVars, classVars, cacheVars, cop, route, fp, up, wr, nc>>

\* One pass through the body of "while True": the call of _get with
\* params["offset"] = offset, the three exits, the extension of items.
\* `key not in response` on a coroutine object raises TypeError.
PagStep ==
    /\ pag.pc = "loop"
    /\ Len(pag.requests) < MaxRequests
    /\ LET response == GetCallValue(Page(pag.upstream, pag.total, pag.limit, pag.offset))
           asked == [pag EXCEPT !.requests = Append(@, pag.offset)]
       IN  pag' =
             IF response.kind = "coroutine"
             THEN [asked EXCEPT !.pc = "done", !.outcome = "TypeError", !.requests = pag.requests]
             ELSE IF ~response.page.haskey
             THEN [asked EXCEPT !.pc = "done", !.outcome = "return"]
             ELSE IF response.page.batch = <<>>
             THEN [asked EXCEPT !.pc = "done", !.outcome = "return"]
             ELSE IF ~response.page.next
             THEN [asked EXCEPT !.pc = "done", !.outcome = "return",
                                !.items = @ \o response.page.batch,
                                !.offset = @ + pag.limit]
             ELSE [asked EXCEPT !.items = @ \o response.page.batch,
                                !.offset = @ + pag.limit]
    /\ op' = "_get_all_items"
    /\ UNCHANGED <<now, store, tokenVars, acqVars, classVars, cacheVars, cop, route, fp, up, wr, nc>>

\* ------------------------------------ the two cache backends side by side
\* The values handed to set: JSON objects.
CacheValues == {<<"dict", 0>>, <<"dict", 1>>}

NoPrev ==
    [kind |-> None, key |-> <<>>, at |-> 0, fileRet |-> JNone, dbRet |-> JNone,
     faulted |-> FALSE]

\* The last operation (kind, key, time, what each backend's get returned,
\* whether reading raised), the operation before it, and per key the value
\* and time of the most recent set.
NoCop ==
    [kind |-> None, key |-> <<>>, at |-> 0, fileRet |-> JNone, dbRet |-> JNone,
     faulted |-> FALSE, prev |-> NoPrev,
     log |-> [k \in Keys |-> [done |-> FALSE, value |-> JNone, at |-> 0]]]

Summary(c) ==
    [kind |-> c.kind, key |-> c.key, at |-> c.at, fileRet |-> c.fileRet,
     dbRet |-> c.dbRet, faulted |-> c.faulted]

\* set(key, value) on a file Cache (Cache.set, also NeonCache.set after the
\* fall-back) and on a NeonCache with its database, at the same instant.
DoCacheSet(key, value) ==
    /\ store = "TokenCache"
    /\ fileStore' = Cache_set(fileStore, key, value, now, FALSE).files
    /\ dbStore' = NeonCache_set_db(dbStore, key, value, now, FALSE)
    /\ cop' = [cop EXCEPT !.kind = "set", !.key = key, !.at = now, !.fileRet = JNone,
                          !.dbRet = JNone, !.faulted = FALSE, !.prev = Summary(cop),
                          !.log[key] = [done |-> TRUE, value |-> value, at |-> now]]
    /\ op' = "cache.set"
    /\ UNCHANGED <<now, store, tokenVars, acqVars, classVars, call, pag, route, fp, up, wr, nc>>

\* get(key) on both backends at the same instant; readFails: reading the file
\* / fetching the row raises, unlinkFails: removing the expired file raises.
DoCacheGet(key, readFails, unlinkFails) ==
    LET got == Cache_get(fileStore, key, now, readFails, unlinkFails)
    IN  /\ store = "TokenCache"
        /\ fileStore' = got.files
        /\ cop' = [cop EXCEPT !.kind = "get", !.key = key, !.at = now,
                              !.fileRet = got.ret,
                              !.dbRet = NeonCache_get_db(dbStore, key, now, readFails),
                              !.faulted = readFails, !.prev = Summary(cop)]
        /\ op' = "cache.get"
        /\ UNCHANGED <<now, store, dbStore, tokenVars, acqVars, classVars, call, pag,
                       route, fp, up, wr, nc>>

\* ------------------------------------------ SpotifyAPI._generate_cache_key
MaxParams == 2

Markets == {"TW", "US"}

KeyUrls == {"https://api.spotify.com/v1/search", "https://api.spotify.com/v1/tracks"}

ParamValues == {"1", "2"}

\* The dicts of at most MaxParams parameters, in every insertion order.
Dicts ==
    {<<"dict", items>> : items \in
        {q \in UNION {[1..n -> {<<ParamNames[i], v>> : i \in 1..Len(ParamNames),
                                                        v \in ParamValues}] :
                        n \in 0..MaxParams} :
            \A i, j \in 1..Len(q) : i # j => q[i][1] # q[j][1]}}

NoFp ==
    [market |-> "TW", url |-> "", p1 |-> PNone, p2 |-> PNone, k1 |-> <<>>, k2 |-> <<>>,
     done |-> FALSE]

\* Two calls of _generate_cache_key on a client of market fp.market.
DoGenerateKeys ==
    /\ ~fp.done
    /\ fp' = [fp EXCEPT !.k1 = generate_cache_key(fp.market, fp.url, fp.p1),
                        !.k2 = generate_cache_key(fp.market, fp.url, fp.p2),
                        !.done = TRUE]
    /\ op' = "_generate_cache_key"
    /\ UNCHANGED <<now, store, tokenVars, acqVars, classVars, cacheVars, pag, cop, route, up, wr, nc>>

\* ------------------------------------------- inbound routes: limit, offset
\* SEARCH_CONFIG["default_limit"], SEARCH_CONFIG["max_limit"]
default_limit == 20
max_limit == 50

\* The default of the routes' limit parameters and of the client methods.
RouteDefaultLimit == 20

\* What a caller can put into ?limit= and ?offset=.
LimitInputs == {-1, 0, 1, 20, 50, 51}
OffsetInputs == {-1, 0, 1}

\* A query parameter as the caller sends it: absent, or an integer.
Absent == [given |-> FALSE, v |-> 0]
QueryInputs(S) == {Absent} \cup {[given |-> TRUE, v |-> v] : v \in S}

\* What a route hands on: "rejected" (FastAPI answers 422 before the handler
\* runs), or the params of the upstream request; an offset of NoOffset: the
\* request carries no offset.
NoOffset == -1000
Rejected == [outcome |-> "rejected", limit |-> 0, offset |-> NoOffset]
Sent(limit, offset) == [outcome |-> "sent", limit |-> limit, offset |-> offset]

\* The value a handler receives for a parameter declared "x: int = d".
Plain(q, d) == IF q.given THEN q.v ELSE d

\* SpotifyAPI.search: limit = min(limit or default_limit, max_limit); the
\* offset goes into params as it came.
SpotifyAPI_search(limit, offset) ==
    Sent(Min(IF limit # 0 THEN limit ELSE default_limit, max_limit), offset)

\* GET /api/search: limit = Query(20, ge=1, le=50), offset = Query(0, ge=0).
route_search(l, o) ==
    IF (l.given /\ (l.v < 1 \/ l.v > 50)) \/ (o.given /\ o.v < 0)
    THEN Rejected
    ELSE SpotifyAPI_search(Plain(l, RouteDefaultLimit), Plain(o, 0))

\* GET /api/artist/{id}/albums: limit: int = 20; get_artist_albums puts
\* {"limit": limit} into params, no offset.
route_get_artist_albums(l, o) == Sent(Plain(l, RouteDefaultLimit), NoOffset)

\* GET /api/album/{id}/tracks, /api/playlist/{id}/tracks, /api/new-releases,
\* /api/categories, /api/category/{id}/playlists: limit: int = 20,
\* offset: int = 0; the client method puts both into params.
route_get_album_tracks(l, o) == Sent(Plain(l, RouteDefaultLimit), Plain(o, 0))
route_get_playlist_tracks(l, o) == Sent(Plain(l, RouteDefaultLimit), Plain(o, 0))
route_get_new_releases(l, o) == Sent(Plain(l, RouteDefaultLimit), Plain(o, 0))
route_get_categories(l, o) == Sent(Plain(l, RouteDefaultLimit), Plain(o, 0))
route_get_category_playlists(l, o) == Sent(Plain(l, RouteDefaultLimit), Plain(o, 0))

Routes ==
    {"search", "artist_albums", "album_tracks", "playlist_tracks", "new_releases",
     "categories", "category_playlists"}

RouteResult(name, l, o) ==
    CASE name = "search" -> route_search(l, o)
      [] name = "artist_albums" -> route_get_artist_albums(l, o)
      [] name = "album_tracks" -> route_get_album_tracks(l, o)
      [] name = "playlist_tracks" -> route_get_playlist_tracks(l, o)
      [] name = "new_releases" -> route_get_new_releases(l, o)
      [] name = "categories" -> route_get_categories(l, o)
      [] OTHER -> route_get_category_playlists(l, o)

NoRoute == [name |-> None, l |-> Absent, o |-> Absent, result |-> Rejected]

\* One inbound request to a route that takes limit or offset.
DoRoute(name, l, o) ==
    /\ route' = [name |-> name, l |-> l, o |-> o, result |-> RouteResult(name, l, o)]
    /\ op' = "route"
    /\ UNCHANGED <<now, store, tokenVars, acqVars, classVars, cacheVars, pag, cop, fp, up, wr, nc>>

\* ------------------------------------ SpotifyAPI._get: the upstream call
\* Cap on the time a modelled call is watched waiting.
MaxWait == 3

\* The timeout of requests.get(url, headers=..., params=...): the call passes
\* none, and requests then waits for the answer without limit.
GetTimeout == NoTime

UpIdle == [pc |-> "idle", elapsed |-> 0, resp |-> NoResponse, outcome |-> None, calls |-> 0]

\* _get, the cache having missed, calls requests.get.
UpCall ==
    /\ up.pc \in {"idle", "done"}
    /\ up' = [UpIdle EXCEPT !.pc = "waiting", !.calls = 1]
    /\ op' = "requests.get"
    /\ UNCHANGED <<now, store, tokenVars, acqVars, classVars, cacheVars, pag, cop, route,
                   fp, wr, nc>>

\* Time passes while requests.get waits for the upstream; with a timeout set
\* the wait ends in requests.exceptions.Timeout, a RequestException, which
\* the handler of _get turns into SpotifyAPIError.
UpWait ==
    /\ up.pc = "waiting"
    /\ up.elapsed < MaxWait
    /\ up' = IF GetTimeout # NoTime /\ up.elapsed >= GetTimeout
             THEN [up EXCEPT !.pc = "done", !.outcome = "SpotifyAPIError"]
             ELSE [up EXCEPT !.elapsed = @ + 1]
    /\ op' = "wait"
    /\ UNCHANGED <<now, store, tokenVars, acqVars, classVars, cacheVars, pag, cop, route,
                   fp, wr, nc>>

\* The upstream answers (or the connection breaks): _get classifies the
\* answer and ends.
UpRespond(r) ==
    /\ up.pc = "waiting"
    /\ up' = [up EXCEPT !.pc = "done", !.resp = r, !.outcome = Classify(r, TRUE)]
    /\ op' = "respond"
    /\ UNCHANGED <<now, store, tokenVars, acqVars, classVars, cacheVars, pag, cop, route,
                   fp, wr, nc>>

\* --------------------------------- NeonCache.set_token calls side by side
\* The coroutines that may be inside set_token at the same time.
Writers == {1, 2}

NoWriters == [w \in Writers |-> "idle"]

\* set_token up to the end of its first statement: `await conn.execute(INSERT
\* ...)`.  The statement commits on its own (no transaction is opened); an
\* exception ends the call in the except clause.
SetTokenInsert(w, token, expires_in, fail) ==
    /\ store = "NeonCache"
    /\ wr[w] = "idle"
    /\ nextId <= MaxInserts
    /\ IF fail
       THEN UNCHANGED <<pool, nextId, wr>>
       ELSE /\ pool' = pool \cup {[id |-> nextId, access_token |-> token,
                                   expires_at |-> now + expires_in, created_at |-> now]}
            /\ nextId' = nextId + 1
            /\ wr' = [wr EXCEPT ![w] = "inserted"]
    /\ op' = "set_token.insert"
    /\ UNCHANGED <<now, store, token_cache, tokRet, req, acqVars, classVars, cacheVars,
                   pag, cop, route, fp, up, nc>>

\* The second statement of set_token, `await conn.execute(DELETE ...)`, run
\* when the event loop resumes the coroutine; an exception is swallowed.
SetTokenDelete(w, fail) ==
    /\ store = "NeonCache"
    /\ wr[w] = "inserted"
    /\ IF fail THEN UNCHANGED pool ELSE \E K \in NewestLive(pool, now) : pool' = K
    /\ wr' = [wr EXCEPT ![w] = "idle"]
    /\ op' = "set_token.delete"
    /\ UNCHANGED <<now, store, token_cache, nextId, tokRet, req, acqVars, classVars,
                   cacheVars, pag, cop, route, fp, up, nc>>

\* ------------------------------------------------- one NeonCache instance
\* The coroutines that call get or set on one NeonCache instance.
Callers == {1, 2}

\* The value the callers set.
NcValue == <<"dict", 1>>

\* NeonCache.__init__: pool = None (0; a pool object is named by the number
\* of the create_pool call that made it), _use_file_cache = False,
\* _file_cache = None (FALSE; TRUE: a constructed Cache).  created counts the
\* pools made by asyncpg.create_pool, completed says that some init ran its
\* try block to the end.  Per caller: where its get / set stands (pc), which
\* of the two it is, its key, what served it, whether an init had completed
\* by then, and what it returned.  last is the caller that ran last.
NeonCacheNew ==
    [pool |-> 0, use_file_cache |-> FALSE, file_cache |-> FALSE,
     created |-> 0, completed |-> FALSE, last |-> 1,
     pc |-> [c \in Callers |-> "idle"],
     kind |-> [c \in Callers |-> "get"],
     key |-> [c \in Callers |-> <<>>],
     served |-> [c \in Callers |-> None],
     ready |-> [c \in Callers |-> FALSE],
     ret |-> [c \in Callers |-> JNone]]

\* `if self._use_file_cache: return await self._file_cache.get(key)` (or
\* set): the file Cache's methods never suspend, so the call is served in the
\* step that reaches it.  With _file_cache = None the attribute access raises
\* AttributeError.
NcServeFile(n, c) ==
    IF ~n.file_cache
    THEN /\ nc' = [n EXCEPT !.pc[c] = "idle", !.served[c] = "AttributeError"]
         /\ UNCHANGED fileStore
    ELSE IF n.kind[c] = "get"
    THEN LET got == Cache_get(fileStore, n.key[c], now, FALSE, FALSE)
         IN  /\ nc' = [n EXCEPT !.pc[c] = "idle", !.served[c] = "file", !.ret[c] = got.ret]
             /\ fileStore' = got.files
    ELSE /\ nc' = [n EXCEPT !.pc[c] = "idle", !.served[c] = "file"]
         /\ fileStore' = Cache_set(fileStore, n.key[c], NcValue, now, FALSE).files

\* The except clause of init: _use_file_cache = True, then Cache(".cache")
\* is constructed, whose mkdir can raise; that exception leaves init and the
\* get / set that awaited it, with _file_cache still None.  Otherwise init
\* returns and the call goes on, without suspending, into the file cache.
NcExcept(n, c, mkdirFails) ==
    LET n1 == [n EXCEPT !.use_file_cache = TRUE, !.last = c]
    IN  IF mkdirFails
        THEN /\ nc' = [n1 EXCEPT !.pc[c] = "idle", !.served[c] = "OSError"]
             /\ UNCHANGED fileStore
        ELSE NcServeFile([n1 EXCEPT !.file_cache = TRUE], c)

NcUnchanged ==
    UNCHANGED <<now, store, tokenVars, acqVars, classVars, call, pag, cop, route, fp,
                up, wr>>

\* A call of get or set: `await self.init()` up to its first suspension.
\* init returns at once when _use_file_cache is set or a pool is assigned.
NcCall(c, kind, key) ==
    /\ store = "TokenCache"
    /\ nc.pc[c] = "idle"
    /\ op' = "NeonCache.call"
    /\ NcUnchanged
    /\ UNCHANGED dbStore
    /\ LET n == [nc EXCEPT !.last = c, !.kind[c] = kind, !.key[c] = key, !.served[c] = None,
                           !.ready[c] = FALSE, !.ret[c] = JNone]
       IN  IF nc.use_file_cache THEN NcServeFile(n, c)
           ELSE IF nc.pool # 0
           THEN nc' = [n EXCEPT !.pc[c] = "acquire"] /\ UNCHANGED fileStore
           ELSE nc' = [n EXCEPT !.pc[c] = "create_pool"] /\ UNCHANGED fileStore

\* `self.pool = await asyncpg.create_pool(...)` completes: the pool is
\* assigned, or the call raised.
NcCreatePool(c, ok, mkdirFails) ==
    /\ store = "TokenCache"
    /\ nc.pc[c] = "create_pool"
    /\ op' = "NeonCache.create_pool"
    /\ NcUnchanged
    /\ UNCHANGED dbStore
    /\ IF ok
       THEN /\ nc' = [nc EXCEPT !.last = c, !.pc[c] = "ddl_cache", !.created = @ + 1,
                                !.pool = nc.created + 1]
            /\ UNCHANGED fileStore
       ELSE NcExcept(nc, c, mkdirFails)

\* The CREATE TABLE of the cache table, inside `async with pool.acquire()`.
NcCacheDdl(c, ok, mkdirFails) ==
    /\ store = "TokenCache"
    /\ nc.pc[c] = "ddl_cache"
    /\ op' = "NeonCache.ddl_cache"
    /\ NcUnchanged
    /\ UNCHANGED dbStore
    /\ IF ok
       THEN nc' = [nc EXCEPT !.last = c, !.pc[c] = "ddl_token"] /\ UNCHANGED fileStore
       ELSE NcExcept(nc, c, mkdirFails)

\* The CREATE TABLE of spotify_token, on the connection the with block has
\* already released (the driver raises on a released connection; both
\* outcomes of the statement are kept).  When it passes, init has run to the
\* end and the call goes on to `self.pool.acquire()`.
NcTokenDdl(c, ok, mkdirFails) ==
    /\ store = "TokenCache"
    /\ nc.pc[c] = "ddl_token"
    /\ op' = "NeonCache.ddl_token"
    /\ NcUnchanged
    /\ UNCHANGED dbStore
    /\ IF ok
       THEN /\ nc' = [nc EXCEPT !.last = c, !.pc[c] = "acquire", !.completed = TRUE]
            /\ UNCHANGED fileStore
       ELSE NcExcept(nc, c, mkdirFails)

\* The statement of get / set on the database pool; its exceptions are
\* swallowed.
NcServeDb(c, fails) ==
    /\ store = "TokenCache"
    /\ nc.pc[c] = "acquire"
    /\ op' = "NeonCache.serve_db"
    /\ NcUnchanged
    /\ UNCHANGED fileStore
    /\ IF nc.kind[c] = "get"
       THEN /\ nc' = [nc EXCEPT !.last = c, !.pc[c] = "idle", !.served[c] = "db",
                                !.ready[c] = nc.completed,
                                !.ret[c] = NeonCache_get_db(dbStore, nc.key[c], now, fails)]
            /\ UNCHANGED dbStore
       ELSE /\ nc' = [nc EXCEPT !.last = c, !.pc[c] = "idle", !.served[c] = "db",
                                !.ready[c] = nc.completed]
            /\ dbStore' = NeonCache_set_db(dbStore, nc.key[c], NcValue, now, fails)

Init ==
    /\ now = 0
    /\ store \in {"TokenCache", "NeonCache"}
    /\ op = "Init"
    /\ token_cache = TokenCacheInit
    /\ pool = {}
    /\ nextId = 1
    /\ tokRet = NoTokRet
    /\ req = NoReq
    /\ acq = AcqIdle
    /\ resp = NoResponse
    /\ verdict = None
    /\ fileStore = [k \in Keys |-> NoEntry]
    /\ dbStore = [k \in Keys |-> NoEntry]
    /\ call = NoCall
    /\ pag = PagIdle
    /\ cop = NoCop
    /\ route = NoRoute
    /\ fp = NoFp
    /\ up = UpIdle
    /\ wr = NoWriters
    /\ nc = NeonCacheNew

vars ==
    <<now, store, op, token_cache, pool, nextId, tokRet, req, acq, resp, verdict,
      fileStore, dbStore, call, pag, cop, route, fp, up, wr, nc>>

\* The token stores driven through their own operations.
NextTokens ==
    \/ Tick /\ UNCHANGED <<tokenVars, notTokenVars>>
    \/ \E token \in Tokens \cup {""}, e \in 0..MaxExpiresIn : DoTokenCacheSet(token, e)
    \/ DoTokenCacheGet
    \/ \E token \in Tokens, e \in 0..MaxExpiresIn, fail \in {"none", "insert", "delete"} :
          NeonCache_set_token(token, e, fail)
    \/ \E fail \in BOOLEAN : NeonCache_get_token(fail)

SpecTokens == Init /\ [][NextTokens]_vars

\* What the acquisition source would hand out if the acquirer ran.
Sources == Tokens \cup {"fail"}

\* Inbound requests resolving their token against the process-wide TokenCache.
InitResolve == Init /\ store = "TokenCache"

NextResolve ==
    \/ Tick /\ UNCHANGED <<tokenVars, notTokenVars>>
    \/ \E token \in Tokens \cup {""}, e \in 0..MaxExpiresIn : DoTokenCacheSet(token, e)
    \/ \E credentials \in Tokens \cup {None}, src \in Sources : DoGetSpotify(credentials, src)
    \/ \E src \in Sources : DoRouteGetToken(src)

SpecResolve == InitResolve /\ [][NextResolve]_vars

\* One caller after the other awaiting the acquirer.
NextAcquire ==
    \/ AcqStart
    \/ \E page \in Pages : AcqAttempt(page)
    \/ \E jitter \in Jitters : AcqExcept(jitter)
    \/ AcqWake
    \/ AcqReturn
    \/ AcqRaise

InitAcquire == Init /\ store = "TokenCache"

SpecAcquire == InitAcquire /\ [][NextAcquire]_vars

\* The event loop resumes a coroutine whose await has completed, and every
\* await of the acquirer completes (the HTTP client's requests time out, the
\* sleep is finite): each step of a started call is eventually taken.
FairSpecAcquire ==
    /\ SpecAcquire
    /\ WF_vars(\E page \in Pages : AcqAttempt(page))
    /\ WF_vars(\E jitter \in Jitters : AcqExcept(jitter))
    /\ WF_vars(AcqWake)
    /\ WF_vars(AcqReturn)
    /\ WF_vars(AcqRaise)

\* Every upstream answer, classified.
InitClassify ==
    /\ now = 0
    /\ store = "TokenCache"
    /\ op = "Init"
    /\ token_cache = TokenCacheInit
    /\ pool = {}
    /\ nextId = 1
    /\ tokRet = NoTokRet
    /\ req = NoReq
    /\ acq = AcqIdle
    /\ resp \in Responses
    /\ verdict = None
    /\ fileStore = [k \in Keys |-> NoEntry]
    /\ dbStore = [k \in Keys |-> NoEntry]
    /\ call = NoCall
    /\ pag = PagIdle
    /\ cop = NoCop
    /\ route = NoRoute
    /\ fp = NoFp
    /\ up = UpIdle
    /\ wr = NoWriters
    /\ nc = NeonCacheNew

NextClassify == \E lib \in BOOLEAN : DoClassify(lib)

SpecClassify == InitClassify /\ [][NextClassify]_vars

\* Requests passing through SpotifyAPI._get, the clock running.
InitPipeline == Init /\ store = "TokenCache"

NextPipeline ==
    \/ Tick /\ UNCHANGED <<tokenVars, notTokenVars>>
    \/ \E url \in Urls, params \in ParamChoices, r \in PipelineResponses,
          init \in InitOutcomes, faults \in Faults :
          DoGet(url, params, r, init, faults)

SpecPipeline == InitPipeline /\ [][NextPipeline]_vars

\* Calls of _get_all_items, one after the other, against every upstream.
InitPaginate == Init /\ store = "TokenCache"

NextPaginate ==
    \/ \E upstream \in Upstreams, total \in 0..MaxTotal, limit \in 1..MaxLimit :
          PagStart(upstream, total, limit)
    \/ PagStep

SpecPaginate == InitPaginate /\ [][NextPaginate]_vars

\* _get_all_items is synchronous code: once called it runs to its end.
FairSpecPaginate == SpecPaginate /\ WF_vars(PagStep)

\* The file Cache and the database NeonCache driven by the same sets and gets.
InitCache == Init /\ store = "TokenCache"

NextCache ==
    \/ Tick /\ UNCHANGED <<tokenVars, notTokenVars>>
    \/ \E key \in Keys, value \in CacheValues : DoCacheSet(key, value)
    \/ \E key \in Keys, readFails \in BOOLEAN, unlinkFails \in BOOLEAN :
          DoCacheGet(key, readFails, unlinkFails)

SpecCache == InitCache /\ [][NextCache]_vars

\* Every market, URL and pair of parameter mappings, fingerprinted.
InitKeys ==
    /\ now = 0
    /\ store = "TokenCache"
    /\ op = "Init"
    /\ token_cache = TokenCacheInit
    /\ pool = {}
    /\ nextId = 1
    /\ tokRet = NoTokRet
    /\ req = NoReq
    /\ acq = AcqIdle
    /\ resp = NoResponse
    /\ verdict = None
    /\ fileStore = [k \in Keys |-> NoEntry]
    /\ dbStore = [k \in Keys |-> NoEntry]
    /\ call = NoCall
    /\ pag = PagIdle
    /\ cop = NoCop
    /\ route = NoRoute
    /\ up = UpIdle
    /\ wr = NoWriters
    /\ nc = NeonCacheNew
    /\ \E market \in Markets, url \in KeyUrls, p1 \in Dicts \cup {PNone},
          p2 \in Dicts \cup {PNone} :
          fp = [NoFp EXCEPT !.market = market, !.url = url, !.p1 = p1, !.p2 = p2]

NextKeys == DoGenerateKeys

SpecKeys == InitKeys /\ [][NextKeys]_vars

\* Inbound requests with every limit and offset.
InitRoutes == Init /\ store = "TokenCache"

NextRoutes ==
    \E name \in Routes, l \in QueryInputs(LimitInputs), o \in QueryInputs(OffsetInputs) :
        DoRoute(name, l, o)

SpecRoutes == InitRoutes /\ [][NextRoutes]_vars

\* Upstream calls of _get; the upstream answers when and if it likes.
InitUpstream == Init /\ store = "TokenCache"

NextUpstream ==
    \/ UpCall
    \/ UpWait
    \/ \E r \in Responses : UpRespond(r)

SpecUpstream == InitUpstream /\ [][NextUpstream]_vars

\* The process keeps running and its clock keeps going; nothing obliges the
\* upstream to answer.
FairSpecUpstream == SpecUpstream /\ WF_vars(UpCall) /\ WF_vars(UpWait)

\* set_token and get_token calls interleaved at their awaits.
InitPoolConc == Init /\ store = "NeonCache"

NextPoolConc ==
    \/ Tick /\ UNCHANGED <<tokenVars, notTokenVars>>
    \/ \E w \in Writers, token \in Tokens, e \in 1..MaxExpiresIn, fail \in BOOLEAN :
          SetTokenInsert(w, token, e, fail)
    \/ \E w \in Writers, fail \in BOOLEAN : SetTokenDelete(w, fail)
    \/ \E fail \in BOOLEAN : NeonCache_get_token(fail)

SpecPoolConc == InitPoolConc /\ [][NextPoolConc]_vars

\* A token the upstream does not accept: it answers 401 to every request
\* that carries it.
Revoked == "revoked"

\* A route handler (GET /api/artist/{artist_id}) running on the client that
\* get_spotify returned: `return await spotify.get_artist(artist_id)`, every
\* exception turned into an HTTPException.  Nothing in the handler touches
\* the token store or the acquirer.
route_get_artist(url, r, init, faults) ==
    /\ op = "get_spotify"
    /\ req.kind = "SpotifyAPI"
    /\ req.bearer = Revoked => r # NoResponse /\ r.status = 401
    /\ DoGet(url, PNone, r, init, faults)

\* The status the handler answers with after _get ended in outcome.
RouteStatus(outcome) ==
    IF outcome = "ok" THEN 200
    ELSE IF outcome = "ResourceNotFoundError" THEN 404
    ELSE 500

\* Answers of the upstream to the handler's call: none (transport error), the
\* artist object, 401.
RequestResponses ==
    {r \in PipelineResponses :
        \/ r = NoResponse
        \/ r.status = 200 /\ r.body.kind = "object" /\ r.body.obj = 1
        \/ r.status = 401}

\* Inbound requests: the dependency resolves the token, the handler calls the
\* upstream through _get; the token store is set from outside the handlers.
InitRequests == Init /\ store = "TokenCache"

NextRequests ==
    \/ Tick /\ UNCHANGED <<tokenVars, notTokenVars>>
    \/ \E token \in Tokens, e \in 1..MaxExpiresIn : DoTokenCacheSet(token, e)
    \/ \E credentials \in Tokens \cup {None, Revoked} : DoGetSpotify(credentials, "fail")
    \/ \E url \in Urls, r \in RequestResponses, init \in CacheSetups :
          route_get_artist(url, r, init, {})

SpecRequests == InitRequests /\ [][NextRequests]_vars


\* Two coroutines calling get and set on one NeonCache instance, interleaved
\* at their await points.
InitNeon == Init /\ store = "TokenCache"

NextNeon ==
    \/ Tick /\ UNCHANGED <<tokenVars, notTokenVars>>
    \/ \E c \in Callers, kind \in {"get", "set"}, key \in Keys : NcCall(c, kind, key)
    \/ \E c \in Callers, ok \in BOOLEAN, mkdirFails \in BOOLEAN : NcCreatePool(c, ok, mkdirFails)
    \/ \E c \in Callers, ok \in BOOLEAN, mkdirFails \in BOOLEAN : NcCacheDdl(c, ok, mkdirFails)
    \/ \E c \in Callers, ok \in BOOLEAN, mkdirFails \in BOOLEAN : NcTokenDdl(c, ok, mkdirFails)
    \/ \E c \in Callers, fails \in BOOLEAN : NcServeDb(c, fails)

SpecNeon == InitNeon /\ [][NextNeon]_vars


\* ------------------------------------------------------------ claims
\* C1: a token-store get never hands out a token whose recorded expiry has
\* been reached: whenever TokenCache.get or NeonCache.get_token returns a
\* token at time `at`, the expiry recorded with that token is later than `at`.
C1_NoExpiredTokenReturned ==
    tokRet.token # None => tokRet.expires_at > tokRet.at

\* C1 witness: get_token ran at the very instant a stored row expired
\* (expires_at = now), the row was still in the table, and the get handed
\* out a different, unexpired token.
C1_Witness ==
    /\ op = "NeonCache.get_token"
    /\ tokRet.token # None
    /\ \E r \in pool : r.expires_at = now /\ r.access_token # tokRet.token

\* The same case on the single-slot TokenCache: a get at the instant of expiry
\* of the stored token returns None.
C1_WitnessTokenCache ==
    /\ op = "TokenCache.get"
    /\ token_cache.token \in Tokens
    /\ token_cache.expires_at = now
    /\ tokRet.token = None

\* C4 (as claimed): a request without credentials that finds no valid token in
\* the store, with an acquisition source ready to hand out token t, leaves t
\* in the token store when the handler returns, for the next request to find.
C4_AcquiredTokenStored ==
    (/\ op \in {"get_spotify", "get_token"}
     /\ req.credentials = None
     /\ req.cached = None
     /\ req.src \in Tokens)
    => TokenCacheGet(token_cache, now) = req.src

\* C5: a request that carries credentials is served with exactly that token,
\* and the step neither reads nor writes the token store nor calls the
\* acquirer: the store is the same before and after.
C5_CredentialsBypassStore ==
    [][(op' = "get_spotify" /\ req'.credentials # None)
        => /\ token_cache' = token_cache
           /\ pool' = pool
           /\ req'.reads = 0
           /\ req'.writes = 0
           /\ req'.acquirer_calls = 0
           /\ req'.fetches = 0
           /\ req'.kind = "SpotifyAPI"
           /\ req'.bearer = req'.credentials]_vars

\* C5 witness: a credentialed request served while the store holds another
\* token that has already expired.
C5_Witness ==
    /\ op = "get_spotify"
    /\ req.credentials \in Tokens
    /\ token_cache.token \in Tokens \ {req.credentials}
    /\ token_cache.expires_at <= now
    /\ req.bearer = req.credentials

\* The same with the store holding a valid token, and with the store empty.
C5_WitnessValidStore ==
    /\ op = "get_spotify"
    /\ req.credentials \in Tokens
    /\ TokenCacheGet(token_cache, now) \in Tokens \ {req.credentials}
    /\ req.bearer = req.credentials

C5_WitnessEmptyStore ==
    /\ op = "get_spotify"
    /\ req.credentials \in Tokens
    /\ token_cache = TokenCacheInit
    /\ req.bearer = req.credentials

\* C8 (as claimed): one call of the acquirer makes at most MAX_RETRIES = 3
\* fetch attempts.
C8_AtMostMaxRetriesAttempts ==
    acq.attempts <= MAX_RETRIES

\* C8 (amended): one call of the acquirer makes at most MAX_RETRIES + 1 = 4
\* fetch attempts: the first one and MAX_RETRIES retries.
C8_AtMostMaxRetriesPlusOneAttempts ==
    acq.attempts <= MAX_RETRIES + 1

\* C8 witness: a call against a source that failed every time is over, after
\* four attempts.
C8_Witness ==
    /\ acq.pc = "done"
    /\ acq.kind = "error"
    /\ acq.attempts = MAX_RETRIES + 1

\* C9: the i-th sleep follows the failure of attempt i - 1 and lasts at least
\* RETRY_DELAY * 2^(i-1); every attempt that starts has been preceded by one
\* sleep per earlier (failed) attempt; a call that returns a token after k
\* failed attempts has slept exactly k times, none after the success.
C9_BackoffSchedule ==
    /\ \A i \in 1..Len(acq.sleeps) :
          /\ acq.sleeps[i].after = i - 1
          /\ acq.sleeps[i].delay >= RETRY_DELAY * Pow2(i - 1)
    /\ acq.pc = "try" => Len(acq.sleeps) = acq.attempts
    /\ (acq.pc \in {"return", "done"} /\ acq.kind = "token")
          => /\ Len(acq.sleeps) = acq.attempts - 1
             /\ Truthy(acq.access_token)

\* C9 witness: the source failed MAX_RETRIES times and then handed out a
\* token; the call returned it after three sleeps.
C9_Witness ==
    /\ acq.pc = "done"
    /\ acq.kind = "token"
    /\ acq.attempts = MAX_RETRIES + 1
    /\ Len(acq.sleeps) = MAX_RETRIES

\* C10: a started call of the acquirer always comes to its end; it ends
\* either with a record whose access_token is non-empty or with the error
\* raised once the retries are used up (after MAX_RETRIES sleeps); and once
\* that error is raised no calling frame makes another attempt.
C10_AcquirerTerminates ==
    /\ (acq.pc \notin {"idle", "done"}) ~> (acq.pc = "done")
    /\ [](acq.pc = "done" =>
            \/ acq.kind = "token" /\ Truthy(acq.access_token) /\ ~acq.exhausted
            \/ /\ acq.kind = "error" /\ acq.exhausted
               /\ Len(acq.sleeps) = MAX_RETRIES
               /\ acq.frames = 0)
    /\ [][(acq.exhausted /\ acq'.exhausted) => acq'.attempts = acq.attempts]_vars

\* C10 witness: the final error has left every frame and reached the caller.
C10_Witness ==
    /\ acq.pc = "done"
    /\ acq.kind = "error"
    /\ acq.exhausted
    /\ acq.frames = 0
    /\ op = "raise"

\* The messages that contain "invalid id" when case is ignored.
InvalidIdMessages == {<<"invalid", "id">>, <<"Invalid", "ID", "xyz">>}

\* The answer's body is an error envelope whose status, if it has one, is the
\* HTTP status.
PlainEnvelope(r) ==
    r.body.kind = "envelope" /\ r.body.estatus \in {0, r.status}

C7_InvalidIdAlwaysNotFound ==
    (/\ verdict # None
     /\ resp.status # 401
     /\ resp.body.kind = "envelope"
     /\ resp.body.message \in InvalidIdMessages)
    => verdict = "ResourceNotFoundError"

\* C7 (amended): for an answer other than HTTP 401 whose envelope message
\* contains "invalid id", the status rules come first: with error status 404
\* (the envelope's, or the HTTP status when the envelope has none) the verdict
\* is ResourceNotFoundError, with 429 it is RateLimitError, and the message
\* makes it ResourceNotFoundError only under error status 400.
C7_InvalidIdOnlyUnder400 ==
    (/\ verdict # None
     /\ resp.status # 401
     /\ resp.body.kind = "envelope"
     /\ resp.body.message \in InvalidIdMessages)
    => /\ ErrorStatus(resp) \in {400, 404} => verdict = "ResourceNotFoundError"
       /\ ErrorStatus(resp) = 429 => verdict = "RateLimitError"

\* C7 witness: an envelope with status 429 and message "invalid id" was
\* classified as RateLimitError.
C7_Witness ==
    /\ verdict = "RateLimitError"
    /\ resp.body.kind = "envelope"
    /\ resp.body.estatus = 429
    /\ resp.body.message = <<"invalid", "id">>

\* C2 (as claimed): whenever the cache holds an unexpired entry for the
\* request's fingerprint, whatever its value (the empty object included), and
\* the cache read does not fail, _get returns that value and makes no
\* upstream call.
C2_CachedEntryServedWithoutUpstream ==
    (/\ op = "_get"
     /\ call.had_entry
     /\ ~call.get_failed)
    => /\ call.upstream_calls = 0
       /\ call.ret = call.entry

\* C3 (as claimed): whatever fails in the cache backend during get or set,
\* _get goes on to the upstream and its outcome is the upstream's: the data,
\* or the classified error; never an error of the cache backend.
C3_FailOpen ==
    (op = "_get" /\ ~call.hit)
    => /\ call.upstream_calls = 1
       /\ call.outcome = Classify(call.resp, TRUE)

Offsets(n, step) == [i \in 1..n |-> (i - 1) * step]

\* ceil(total / limit)
PageCount(total, limit) == (total + limit - 1) \div limit

\* C12: pagination completeness: against an upstream that serves total items
\* in batches of the limit and an empty batch afterwards, with or without
\* next on the non-final pages, the call requests the offsets 0, B, 2B, ... in
\* order, stops no later than the first empty batch and returns exactly the
\* items 1..total in upstream order.
C12_PaginationComplete ==
    (pag.pc = "done" /\ pag.upstream \in {"next", "nonext"}) =>
        /\ pag.outcome = "return"
        /\ pag.items = Slice(0, pag.total)
        /\ \E n \in {PageCount(pag.total, pag.limit), PageCount(pag.total, pag.limit) + 1} :
              pag.requests = Offsets(n, pag.limit)

\* C14: cache round trip: on every backend, a get of key k issued after
\* set(k, v) and before the TTL has elapsed returns a value equal to v, v
\* being the value of the most recent set of k.
C14_CacheRoundTrip ==
    (/\ cop.kind = "get"
     /\ ~cop.faulted
     /\ cop.log[cop.key].done
     /\ cop.at - cop.log[cop.key].at < Ttl) =>
        /\ cop.fileRet = cop.log[cop.key].value
        /\ cop.dbRet = cop.log[cop.key].value

\* Two gets of one key, one right after the other at one instant, neither
\* cut short by an exception while reading.
TwoGets ==
    /\ cop.kind = "get"
    /\ cop.prev.kind = "get"
    /\ cop.prev.key = cop.key
    /\ cop.prev.at = cop.at
    /\ ~cop.faulted
    /\ ~cop.prev.faulted

\* C15: read idempotence: two consecutive gets of a key at the same instant
\* with no set in between return the same result on each backend, also when
\* the first get found the entry expired and removed its file.
C15_ReadIdempotent ==
    TwoGets => cop.fileRet = cop.prev.fileRet /\ cop.dbRet = cop.prev.dbRet

\* Two consecutive gets of an entry that had expired when the first of them
\* ran: the first one removed the file.
C15_Witness ==
    /\ TwoGets
    /\ cop.log[cop.key].done
    /\ cop.at - cop.log[cop.key].at > Ttl
    /\ ~fileStore[cop.key].present
    /\ dbStore[cop.key].present

\* C16: TTL validity: a get at time now of an entry whose most recent set was
\* at t0 returns the entry if and only if now - t0 <= ttl, on each backend.
C16_TtlValidity ==
    (cop.kind = "get" /\ ~cop.faulted /\ cop.log[cop.key].done) =>
        /\ (cop.fileRet # JNone) <=> (cop.at - cop.log[cop.key].at <= Ttl)
        /\ (cop.dbRet # JNone) <=> (cop.at - cop.log[cop.key].at <= Ttl)

\* C17: backend equivalence: for the same sets and gets at the same times the
\* file Cache and the database NeonCache give the same present/absent answer
\* and the same value to every get.
C17_BackendsAgree ==
    (cop.kind = "get" /\ ~cop.faulted) =>
        /\ (cop.fileRet = JNone) <=> (cop.dbRet = JNone)
        /\ cop.fileRet = cop.dbRet

\* C13: token pool bound: after every NeonCache.set_token call (a) the newly
\* issued token is in the pool, (b) the pool holds at most 3 rows, (c) no row
\* with expires_at <= now remains, and (d) a live row that was evicted is the
\* one with the oldest created_at among the rows present before the eviction.
C13_TokenPoolBound ==
    [][op' = "NeonCache.set_token" =>
          /\ \E r \in pool' : r.id = nextId /\ r.created_at = now
          /\ Cardinality(pool') <= PoolLimit
          /\ \A r \in pool' : r.expires_at > now
          /\ \A e \in LiveRows(pool \ pool', now) :
                \A r \in LiveRows(pool, now) : e.created_at <= r.created_at]_vars

\* The set of (name, value) pairs of a params argument; None has none.
PairSet(params) == {params[2][i] : i \in 1..Len(params[2])}

\* C18: cache key determinism: two parameter mappings holding the same pairs,
\* in whatever insertion order, get the same fingerprint for the same market
\* and URL; None and the empty mapping get the same fingerprint.
C18_CacheKeyDeterministic ==
    (fp.done /\ PairSet(fp.p1) = PairSet(fp.p2)) => fp.k1 = fp.k2

\* The same two pairs inserted in opposite orders.
C18_Witness ==
    /\ fp.done
    /\ Len(fp.p1[2]) = 2
    /\ fp.p1[2] # fp.p2[2]
    /\ PairSet(fp.p1) = PairSet(fp.p2)
    /\ fp.k1 = fp.k2

\* None against the empty mapping.
C18_WitnessNoneEmpty ==
    /\ fp.done
    /\ fp.p1 = PNone
    /\ fp.p2 = <<"dict", <<>>>>
    /\ fp.k1 = fp.k2

\* C20: parameter bounds: on every route taking limit or offset, whatever
\* integers the caller supplies, a request that is sent upstream carries a
\* limit between 1 and 50 (20 when the caller gave none) and, if it carries an
\* offset, an offset >= 0.
C20_ParameterBounds ==
    (op = "route" /\ route.result.outcome = "sent") =>
        /\ route.result.limit \in 1..50
        /\ ~route.l.given => route.result.limit = 20
        /\ route.result.offset # NoOffset => route.result.offset >= 0

\* The errors of spotify/exceptions.py that _get raises.
ClassifiedErrors ==
    {"TokenError", "ResourceNotFoundError", "RateLimitError", "ValidationError",
     "SpotifyAPIError"}

\* The upstream call failed: no response (transport error), a status outside
\* 2xx, or an answer the classification turns into an error.
UpstreamFailed(r) ==
    r = NoResponse \/ r.status < 200 \/ r.status > 299 \/ Classify(r, TRUE) # "ok"

\* C19: upstream failure handling: a _get whose cache.get missed makes exactly
\* one upstream call; if the call failed, _get raises the classified error and
\* writes no cache entry (at most the expired file is gone); an entry is
\* written only by a _get whose one call succeeded, and a value returned
\* after a miss has been written first unless the write itself failed.
C19_UpstreamFailureHandling ==
    [][(op' = "_get" /\ call'.mode # "mkdir_error" /\ ~call'.hit) =>
          /\ call'.upstream_calls = 1
          /\ UpstreamFailed(call'.resp) =>
                /\ call'.outcome = Classify(call'.resp, TRUE)
                /\ call'.outcome \in ClassifiedErrors
                /\ dbStore' = dbStore
                /\ \A k \in Keys : fileStore'[k] \in {fileStore[k], NoEntry}
          /\ (\/ dbStore' # dbStore
              \/ \E k \in Keys : fileStore'[k] \notin {fileStore[k], NoEntry}) =>
                ~UpstreamFailed(call'.resp)
          /\ (call'.outcome = "ok" /\ ~call'.set_failed) =>
                /\ call'.mode = "db" =>
                      dbStore'[call'.key].present /\ dbStore'[call'.key].stored_at = now
                /\ call'.mode = "file" =>
                      fileStore'[call'.key].present /\ fileStore'[call'.key].stored_at = now]_vars

\* A miss followed by an upstream 500: the error is raised and no file is
\* there afterwards.
C19_Witness ==
    /\ op = "_get"
    /\ ~call.hit
    /\ call.mode = "file"
    /\ call.upstream_calls = 1
    /\ call.resp.status = 500
    /\ call.outcome = "SpotifyAPIError"
    /\ ~fileStore[call.key].present

\* A miss on the database followed by a transport error: the row stays as it
\* was.
C19_WitnessTransport ==
    /\ op = "_get"
    /\ ~call.hit
    /\ call.mode = "db"
    /\ call.resp = NoResponse
    /\ call.outcome = "SpotifyAPIError"
    /\ dbStore[call.key].present

\* C21: bounded response: every upstream call of _get comes to an end, also
\* when the upstream accepts the connection and never answers: it is given up
\* after a bounded time and ends as SpotifyAPIError, after one call.
C21_BoundedResponse ==
    /\ (up.pc = "waiting") ~> (up.pc = "done")
    /\ [](up.pc = "done" /\ up.resp = NoResponse => up.outcome = "SpotifyAPIError")
    /\ [](up.calls <= 1)

\* C22: token pool atomicity: at every instant at which a get_token can run,
\* set_token calls being under way or not, the pool holds at most 3 rows and
\* no expired row: no state between the statements of a set_token is there to
\* be seen.
C22_TokenPoolAtomic ==
    /\ Cardinality(pool) <= PoolLimit
    /\ \A r \in pool : r.expires_at > now

\* C24: lazy deletion: on each backend a get that finds the entry of its key
\* expired returns absent and removes the entry: after the get the backend
\* stores nothing under the key.
C24_LazyDeletion ==
    (/\ cop.kind = "get"
     /\ ~cop.faulted
     /\ cop.log[cop.key].done
     /\ cop.at - cop.log[cop.key].at > Ttl) =>
        /\ cop.fileRet = JNone
        /\ cop.dbRet = JNone
        /\ ~fileStore[cop.key].present
        /\ ~dbStore[cop.key].present

\* C25: extraction order within one attempt: session script payload, then
\* inline text patterns, then client-credentials exchange; the first strategy
\* that yields a token wins, the POST is sent only when the first two yielded
\* none, and the attempt fails only when the page fetch fails or none of the
\* three yields a token.
C25_ExtractionOrder ==
    op = "attempt" =>
        LET p == acq.page
            fetched == p.fetch = "ok"
            y1 == fetched /\ p.session \in Tokens
            y2 == fetched /\ p.pattern \in Tokens
            y3 == fetched /\ p.post \in Tokens
            ok == acq.kind = "token"
        IN  /\ y1 => ok /\ acq.access_token = p.session /\ acq.strategy = 1
            /\ (~y1 /\ y2) => ok /\ acq.access_token = p.pattern /\ acq.strategy = 2
            /\ (~y1 /\ ~y2 /\ y3) => ok /\ acq.access_token = p.post /\ acq.strategy = 3
            /\ acq.posted => ~y1 /\ ~y2
            /\ ~ok <=> (~fetched \/ (~y1 /\ ~y2 /\ ~y3))

\* C26: declared lifetime: the record the acquirer returns carries the
\* expires_in the token response declared for the token, and 3600 only when
\* none was declared.
C26_DeclaredLifetime ==
    acq.kind = "token" =>
        acq.expires_in = IF acq.strategy = 3 /\ acq.page.declared # 0
                         THEN acq.page.declared
                         ELSE 3600

\* C23: no automatic recovery on TokenInvalid: when the upstream answers 401
\* to a request whose token came from the token store, the handler reports
\* the error (status 500, one upstream call, nothing returned), no
\* acquisition is started and the token store is left as it was; and as long
\* as the stored token has not expired, every request without credentials is
\* handed that same token, without a call of the acquirer.
C23_NoRecoveryOnTokenInvalid ==
    [][/\ (op' = "_get" /\ req.cached # None /\ call'.upstream_calls > 0
              /\ call'.resp # NoResponse /\ call'.resp.status = 401)
          => /\ call'.outcome = "TokenError"
             /\ RouteStatus(call'.outcome) = 500
             /\ call'.ret = JNone
             /\ call'.upstream_calls = 1
             /\ token_cache' = token_cache
             /\ req' = req /\ req.acquirer_calls = 0
             /\ acq' = acq
       /\ (op' = "get_spotify" /\ req'.credentials = None
              /\ token_cache.token \in Tokens /\ token_cache.expires_at # NoTime
              /\ now < token_cache.expires_at)
          => /\ req'.kind = "SpotifyAPI"
             /\ req'.bearer = token_cache.token
             /\ req'.cached = token_cache.token
             /\ req'.acquirer_calls = 0
             /\ token_cache' = token_cache
      ]_vars

\* C23 witness: a request was handed the stored token t1, the upstream
\* answered 401, the call ended in TokenError after one upstream call, and
\* the store still holds t1, unexpired.
C23_Witness ==
    /\ op = "_get"
    /\ req.cached = "t1"
    /\ call.bearer = "t1"
    /\ call.resp # NoResponse /\ call.resp.status = 401
    /\ call.outcome = "TokenError"
    /\ call.upstream_calls = 1
    /\ token_cache.token = "t1"
    /\ token_cache.expires_at # NoTime /\ now < token_cache.expires_at

\* C27: caching is optional: with the cache disabled in the configuration or
\* on Vercel, _get skips the cache steps, calls the upstream once and ends as
\* the classification of the answer says; the absence of a cache never makes
\* the call fail.
C27_CachingOptional ==
    (op = "_get" /\ call.mode \in {"vercel", "disabled"}) =>
        /\ call.upstream_calls = 1
        /\ call.outcome = Classify(call.resp, TRUE)
        /\ call.outcome = "ok" => call.ret = JsonOf(call.resp)

\* C28: token isolation of cached responses: a value cached by a call made
\* under one token is never returned to a call made under another token, and
\* a call whose token the upstream does not accept is never answered from
\* the cache.
C28_TokenIsolation ==
    (op = "_get" /\ call.hit) =>
        /\ call.owner[call.key] = call.bearer
        /\ call.bearer # Revoked

\* C29: single acquisition under concurrency: of the requests without
\* credentials that arrive while the TokenCache holds no valid token, one
\* calls the acquirer and the ones behind it use the token it stored: the
\* request that follows a request which called the acquirer (the source ready
\* to hand out a token) calls no acquirer, is given that token, and the
\* TokenCache holds that token with its own, unexpired, expires_at.
C29_SingleAcquisition ==
    [][(/\ op = "get_spotify" /\ req.credentials = None
        /\ req.acquirer_calls = 1 /\ req.src \in Tokens
        /\ op' = "get_spotify" /\ req'.credentials = None)
       => /\ req'.acquirer_calls = 0
          /\ req'.kind = "SpotifyAPI"
          /\ req'.bearer = req.src
          /\ token_cache'.token = req.src
          /\ token_cache'.expires_at # NoTime
          /\ token_cache'.expires_at > now
      ]_vars

\* C30: NeonCache fallback mode: _use_file_cache = True implies that
\* _file_cache is a constructed Cache; _use_file_cache never goes back to
\* False; a get or set called once it is True is served by the file cache
\* and leaves the database alone; a get or set served by the database was
\* preceded by a completed init; and the concurrent first calls of init
\* create at most one connection pool.
C30_FallbackMode ==
    [][/\ nc'.use_file_cache => nc'.file_cache
       /\ nc.use_file_cache => nc'.use_file_cache
       /\ \A c \in Callers :
             (nc.use_file_cache /\ op' = "NeonCache.call" /\ nc'.last = c)
             => nc'.served[c] = "file" /\ dbStore' = dbStore /\ nc'.created = nc.created
       /\ \A c \in Callers :
             (op' = "NeonCache.serve_db" /\ nc'.last = c) => nc'.ready[c]
       /\ nc'.created <= 1
      ]_vars

====
